---- MODULE Spec2Model ----
(***************************************************************************)
(* Vector-to-raster diagram export pipeline of PatentAgent.                *)
(*                                                                         *)
(* Two variants of window.renderMermaid are modelled:                      *)
(*   "chain"  src/mermaid_script.js : four rasterization strategies tried  *)
(*            in order by tryAllMethods;                                   *)
(*   "png"    src/unnamed/part_001  : resolveSvgSize, cloneSvgForExport,   *)
(*            svgToPng, triggerDownload and the SVG fallback button.       *)
(*                                                                         *)
(* Lengths are fixed-point numbers: the integer n stands for n / Den.      *)
(***************************************************************************)
EXTENDS Integers, Sequences, FiniteSets, Bags, TLC

VARIABLES
    variant,   \* which renderMermaid is loaded: "chain" or "png"
    output,    \* outputDiv.innerHTML: the render target
    status,    \* errorDiv.innerHTML: the status sink
    handler,   \* downloadBtn.onclick: 0, or the render whose closure is installed
    rpc,       \* one entry per renderMermaid call: where the call stands
    sess,      \* the bag of export sessions, one per activation of downloadBtn.onclick
    faults,    \* number of exceptions the platform has thrown so far
    escaped,   \* an exception left a handler, or a rejection had no handler
    node,      \* the live SVG element of the render target
    size,      \* what resolveSvgSize returned for node
    clone,     \* the export-ready copy of node built last
    canvas,    \* the pixel size of the canvas sized last
    dpr,       \* window.devicePixelRatio
    vector,    \* the vector files the fallback button saved: how many, the last one
    svgText,   \* svgForDownload: the render text the click handler works on
    cleanSVG   \* the text strategy 2, 3 or 4 handed to the image last

vars == <<variant, output, status, handler, rpc, sess, faults, escaped, node, size, clone, canvas, dpr, vector, svgText, cleanSVG>>

(***************************************************************************)
(* Bounds of the model.                                                    *)
(***************************************************************************)
\* user operations (renderMermaid calls plus clicks) in one behaviour
MaxOps == 3
\* exceptions thrown by the platform (DOM, canvas, serializer) in one behaviour
MaxFaults == 1
\* denominator of the fixed-point lengths
Den == 2

(***************************************************************************)
(* JavaScript values as far as resolveSvgSize needs them.                  *)
(***************************************************************************)
Undef == [t |-> "undef", v |-> 0]
NaN == [t |-> "nan", v |-> 0]
Infinity == [t |-> "inf", v |-> 0]
Num(n) == [t |-> "num", v |-> n]

\* the mutant of Or: a later value replaces an earlier one
Or_LaterWins(a, b) ==
    IF a.t \in {"undef", "nan"} \/ (a.t = "num" /\ a.v = 0) THEN b
    ELSE IF b.t \in {"undef", "nan"} \/ (b.t = "num" /\ b.v = 0) THEN a ELSE b

\* !x of JavaScript, for undefined and numbers
Falsy(x) == x.t \in {"undef", "nan"} \/ (x.t = "num" /\ x.v = 0)
\* a || b of JavaScript
Or(a, b) == IF Falsy(a) THEN b ELSE a
\* Math.ceil on a fixed-point number
Ceil(n) == (0 - ((0 - n) \div Den)) * Den

(***************************************************************************)
(* Attribute strings. A token is what getAttribute returns:                *)
(*   absent  null (no such attribute)       num   "300"                    *)
(*   pct     "100%"                         unit  "300px"                  *)
(*   text    "auto"                         inf   "Infinity"               *)
(***************************************************************************)
Tok(k, v) == [k |-> k, v |-> v]
Absent == Tok("absent", 0)

\* parseFloat: the longest numeric prefix, NaN when there is none
parseFloat(value) ==
    CASE value.k \in {"num", "unit", "pct"} -> Num(value.v)
      [] value.k = "inf" -> Infinity
      [] OTHER -> NaN

\* the mutant of getNumber: percentages are parsed like any other number
getNumber_KeepsPercent(value) ==
    LET num == parseFloat(value) IN IF num.t = "num" THEN num ELSE Undef

getNumber(value) ==
    IF value.k = "pct"
    THEN Undef
    ELSE LET num == parseFloat(value) IN IF num.t = "num" THEN num ELSE Undef

(***************************************************************************)
(* The viewBox attribute: its tokens and what separates them.              *)
(*   sep "none"  : the attribute is absent                                 *)
(*   sep "space" : "0 0 100 50"                                            *)
(*   sep "comma" : "0,0,100,50" (no white space)                           *)
(***************************************************************************)
NoViewBox == [sep |-> "none", toks |-> <<>>]

\* viewBox.trim().split(/\s+/): white space alone separates the parts
SplitWs(vb) ==
    CASE vb.sep = "space" -> vb.toks
      [] vb.sep = "comma" ->
            << Tok(IF \E i \in 1..Len(vb.toks) : vb.toks[i].k = "pct"
                   THEN "pct"
                   ELSE IF vb.toks[1].k = "num" THEN "unit" ELSE vb.toks[1].k,
                   vb.toks[1].v) >>
      [] OTHER -> << Tok("text", 0) >>

vbPartsOf(svgEl) ==
    LET parts == SplitWs(svgEl.viewBox)
        nums == [i \in 1..Len(parts) |-> getNumber(parts[i])]
    IN IF Len(nums) # 4 \/ \E i \in 1..Len(nums) : nums[i].t # "num"
       THEN <<>>
       ELSE nums

\* the mutant of FromViewBox: origin where the extent is meant (indices 0, 1)
FromViewBox_WrongIndex(cur, vbParts, i) ==
    IF Len(vbParts) = 4 THEN Or(cur, vbParts[i - 2]) ELSE cur

\* width = width || vbParts[2]; height = height || vbParts[3] (i counts from 1)
FromViewBox(cur, vbParts, i) ==
    IF Len(vbParts) = 4 THEN Or(cur, vbParts[i]) ELSE cur

resolveSvgSize(svgEl) ==
    LET rect == IF svgEl.hasRect THEN svgEl.rect ELSE [width |-> 0, height |-> 0]
        w0 == getNumber(svgEl.width)
        h0 == getNumber(svgEl.height)
        vbParts == vbPartsOf(svgEl)
        vb0 == Len(vbParts) = 4
        \* 1) the viewBox fills what the attributes left unset
        w1 == FromViewBox(w0, vbParts, 3)
        h1 == FromViewBox(h0, vbParts, 4)
        \* 2) the layout box
        w2 == IF Falsy(w1) /\ rect.width # 0 THEN Num(rect.width) ELSE w1
        h2 == IF Falsy(h1) /\ rect.height # 0 THEN Num(rect.height) ELSE h1
        \* 3) getBBox, inside try/catch
        useBox == (Falsy(w2) \/ Falsy(h2) \/ ~vb0) /\ svgEl.bbox.k = "box"
        w3 == IF useBox THEN Or(w2, Num(Ceil(svgEl.bbox.width))) ELSE w2
        h3 == IF useBox THEN Or(h2, Num(Ceil(svgEl.bbox.height))) ELSE h2
        \* 4) clientWidth, scrollWidth, the default
        w4 == Or(Or(Or(w3, Num(svgEl.clientWidth)), Num(svgEl.scrollWidth)), Num(1024 * Den))
        h4 == Or(Or(Or(h3, Num(svgEl.clientHeight)), Num(svgEl.scrollHeight)), Num(768 * Den))
        viewBox ==
            IF vb0
            THEN [src |-> "attr", x |-> vbParts[1].v, y |-> vbParts[2].v,
                  w |-> vbParts[3].v, h |-> vbParts[4].v]
            ELSE IF useBox
            THEN [src |-> "bbox", x |-> svgEl.bbox.x, y |-> svgEl.bbox.y,
                  w |-> svgEl.bbox.width, h |-> svgEl.bbox.height]
            ELSE [src |-> "synth", x |-> 0, y |-> 0, w |-> w4.v, h |-> h4.v]
    IN [width |-> w4, height |-> h4, viewBox |-> viewBox]


(***************************************************************************)
(* The SVG elements resolveSvgSize is applied to.                          *)
(***************************************************************************)
AttrToks ==
    {Absent, Tok("num", 0), Tok("num", 6 * Den), Tok("num", 0 - 2 * Den),
     Tok("pct", 100 * Den), Tok("unit", 5 * Den), Tok("text", 0), Tok("inf", 0)}

N(n) == Tok("num", n * Den)

ViewBoxes ==
    {NoViewBox,
     [sep |-> "space", toks |-> <<N(0), N(0), N(8), N(3)>>],
     [sep |-> "space", toks |-> <<N(1), N(2), N(8), N(3)>>],
     [sep |-> "space", toks |-> <<N(0), N(0), N(0), N(3)>>],
     [sep |-> "space", toks |-> <<N(0), N(0), N(0 - 8), N(3)>>],
     [sep |-> "space", toks |-> <<N(0), N(0), N(8)>>],
     [sep |-> "space", toks |-> <<N(0), N(0), Tok("pct", 100 * Den), N(3)>>],
     [sep |-> "comma", toks |-> <<N(0), N(0), N(8), N(3)>>]}

Rects ==
    {[has |-> FALSE, width |-> 0, height |-> 0],
     [has |-> TRUE, width |-> 0, height |-> 0],
     [has |-> TRUE, width |-> 7 * Den + 1, height |-> 5 * Den]}

BBoxes ==
    {[k |-> "none", x |-> 0, y |-> 0, width |-> 0, height |-> 0],
     [k |-> "throws", x |-> 0, y |-> 0, width |-> 0, height |-> 0],
     [k |-> "box", x |-> 0, y |-> 0, width |-> 0, height |-> 0],
     [k |-> "box", x |-> Den, y |-> Den, width |-> 4 * Den + 1, height |-> 2 * Den]}

ClientSizes == {[w |-> 0, h |-> 0], [w |-> 11 * Den, h |-> 10 * Den]}
ScrollSizes == {[w |-> 0, h |-> 0], [w |-> 12 * Den, h |-> 0]}

MkNode(w, h, vb, r, b, c, sc) ==
    [width |-> w, height |-> h, viewBox |-> vb,
     hasRect |-> r.has, rect |-> [width |-> r.width, height |-> r.height],
     bbox |-> b,
     clientWidth |-> c.w, clientHeight |-> c.h,
     scrollWidth |-> sc.w, scrollHeight |-> sc.h]

Nodes ==
    {MkNode(w, h, vb, r, b, c, sc) :
        w \in AttrToks, h \in AttrToks, vb \in ViewBoxes, r \in Rects,
        b \in BBoxes, c \in ClientSizes, sc \in ScrollSizes}

\* what mermaid.render produces for the export state machine: width="100%",
\* a viewBox, and a layout box
RenderedNode ==
    MkNode(Tok("pct", 100 * Den), Absent,
           [sep |-> "space", toks |-> <<N(0), N(0), N(8), N(3)>>],
           [has |-> TRUE, width |-> 7 * Den + 1, height |-> 5 * Den],
           [k |-> "box", x |-> Den, y |-> Den, width |-> 4 * Den + 1, height |-> 2 * Den],
           [w |-> 0, h |-> 0], [w |-> 0, h |-> 0])

NoSize == [width |-> Undef, height |-> Undef,
           viewBox |-> [src |-> "none", x |-> 0, y |-> 0, w |-> 0, h |-> 0]]


(***************************************************************************)
(* The element tree. An element is its attributes (width, height, viewBox, *)
(* xmlns), its layout (for the live node) and the list of its children.    *)
(* A child is a group, a rect or a style node; tagged: it is a rect with   *)
(* the data-export-bg attribute; inner: the number of rect[data-export-bg] *)
(* elements among its descendants.                                         *)
(***************************************************************************)
Child(k, tagged, inner, w, h) ==
    [k |-> k, tagged |-> tagged, inner |-> inner, x |-> 0, y |-> 0, w |-> w, h |-> h]
Group(inner) == Child("g", FALSE, inner, 0, 0)
StyleNode == Child("style", FALSE, 0, 0, 0)

\* the element n with the children ch
Element(n, xmlns, ch) ==
    [width |-> n.width, height |-> n.height, viewBox |-> n.viewBox,
     hasRect |-> n.hasRect, rect |-> n.rect, bbox |-> n.bbox,
     clientWidth |-> n.clientWidth, clientHeight |-> n.clientHeight,
     scrollWidth |-> n.scrollWidth, scrollHeight |-> n.scrollHeight,
     xmlns |-> xmlns, children |-> ch]

NoElement == [k |-> "none"]
NoVector == [n |-> 0, doc |-> NoElement]

\* the elements a function works on: the live node, the copy it made, and
\* which of the two its local variable refers to
Heap(svgEl) == [live |-> svgEl, cloned |-> NoElement, ref |-> "live"]

\* the mutant of cloneNode: no copy is made, the variable refers to the live node
cloneNode_Alias(h) == h

\* const cloned = svgEl.cloneNode(true)
cloneNode(h) == [h EXCEPT !.cloned = h.live, !.ref = "cloned"]

\* cloned.setAttribute(name, value)
setAttribute(h, name, value) == [h EXCEPT ![h.ref][name] = value]

\* the mutant of insertBefore: the child is appended after the last child
insertBefore_Append(h, child) == [h EXCEPT ![h.ref].children = @ \o <<child>>]

\* cloned.insertBefore(child, cloned.firstChild)
insertBefore(h, child) == [h EXCEPT ![h.ref].children = <<child>> \o @]

\* cloned.querySelector('rect[data-export-bg]'): any descendant
querySelectorBg(el) ==
    \E i \in 1..Len(el.children) : el.children[i].tagged \/ el.children[i].inner > 0

\* String(n) of a finite number, as setAttribute and template strings apply it
NumberToString(num) == Tok("num", num.v)

\* `0 0 ${width} ${height}`
ZeroBox(width, height) ==
    [sep |-> "space", toks |-> <<Tok("num", 0), Tok("num", 0), NumberToString(width), NumberToString(height)>>]

\* the viewBox string resolveSvgSize returns: the attribute of svgEl as it
\* is, `${box.x} ${box.y} ${box.width} ${box.height}`, or `0 0 w h`
ViewBoxString(svgEl, vb) ==
    CASE vb.src = "attr" -> svgEl.viewBox
      [] vb.src = "none" -> NoViewBox
      [] OTHER -> [sep |-> "space",
                   toks |-> <<Tok("num", vb.x), Tok("num", vb.y), Tok("num", vb.w), Tok("num", vb.h)>>]

\* the rect cloneSvgForExport creates: data-export-bg, x = y = 0, fill white
BgRect(width, height) == Child("rect", TRUE, 0, width.v, height.v)

\* the mutant of InsertBg: the background is inserted whatever the copy holds
InsertBg_Always(h, width, height) == insertBefore(h, BgRect(width, height))

\* if (!cloned.querySelector('rect[data-export-bg]')) cloned.insertBefore(bg, ...)
InsertBg(h, width, height) ==
    IF querySelectorBg(h[h.ref]) THEN h ELSE insertBefore(h, BgRect(width, height))

cloneSvgForExport(svgEl, sz) ==
    LET viewBox == ViewBoxString(svgEl, sz.viewBox)
        h1 == cloneNode(Heap(svgEl))
        h2 == setAttribute(h1, "xmlns", TRUE)
        h3 == setAttribute(h2, "width", NumberToString(sz.width))
        h4 == setAttribute(h3, "height", NumberToString(sz.height))
        h5 == setAttribute(h4, "viewBox",
                           IF viewBox.sep # "none" THEN viewBox
                           ELSE ZeroBox(sz.width, sz.height))
        h6 == InsertBg(h5, sz.width, sz.height)
    IN insertBefore(h6, StyleNode)

\* downloadPNG of mermaid_script.js: Math.ceil(svgRect.width) || 800
chainSize(svgEl) ==
    [width |-> Or(Num(Ceil(svgEl.rect.width)), Num(800 * Den)),
     height |-> Or(Num(Ceil(svgEl.rect.height)), Num(600 * Den)),
     viewBox |-> [src |-> "none", x |-> 0, y |-> 0, w |-> 0, h |-> 0]]

\* method1_CloneSVG up to the serializer
method1_CloneSVG(svgEl, sz) ==
    LET h1 == cloneNode(Heap(svgEl))
        h2 == setAttribute(h1, "width", NumberToString(sz.width))
        h3 == setAttribute(h2, "height", NumberToString(sz.height))
        h4 == setAttribute(h3, "xmlns", TRUE)
    IN IF h4[h4.ref].viewBox.sep = "none"
       THEN setAttribute(h4, "viewBox", ZeroBox(sz.width, sz.height))
       ELSE h4


\* the live node of the export state machine: what mermaid.render produced,
\* with its namespace declaration and its content
RenderedElement == Element(RenderedNode, TRUE, <<Group(0)>>)

\* the try block of fallbackBtn.onclick: the copy that is serialized and
\* saved as the .svg file
fallbackSvg(svgEl) ==
    LET sz == resolveSvgSize(svgEl)
        h == cloneSvgForExport(svgEl, sz)
    IN [live |-> h.live, doc |-> h[h.ref], size |-> sz]

(***************************************************************************)
(* SVG text. A text is the list of its pieces: "open" is '<svg', "close"   *)
(* the '>' that ends the root tag, "end" is '</svg>', "child" is markup    *)
(* that holds none of the searched words, and a piece of kind xmlns,       *)
(* width, height or viewBox is text that holds 'xmlns=', 'width=',         *)
(* 'height=' or 'viewBox=': an attribute of the root tag when it stands    *)
(* before "close", of a descendant after it.                               *)
(***************************************************************************)
Piece(k, w, h) == [k |-> k, w |-> w, h |-> h]
Open == Piece("open", 0, 0)
NoText == <<>>

\* text.includes(word)
Includes(text, k) == \E i \in 1..Len(text) : text[i].k = k

\* text.replace('<svg', by): the first occurrence only
ReplaceSvg(text, by) ==
    IF ~Includes(text, "open") THEN text
    ELSE LET i == CHOOSE j \in 1..Len(text) :
                     text[j].k = "open" /\ \A l \in 1..(j - 1) : text[l].k # "open"
         IN SubSeq(text, 1, i - 1) \o by \o SubSeq(text, i + 1, Len(text))

\* if (!cleanSVG.includes(word)) cleanSVG = cleanSVG.replace('<svg', by)
Patch(text, k, by) == IF Includes(text, k) THEN text ELSE ReplaceSvg(text, by)

\* the three patches method2_UseOriginalSVG and method3_DataURI share
method3_DataURI(text, sz) ==
    LET t1 == Patch(text, "xmlns", <<Open, Piece("xmlns", 0, 0)>>)
        t2 == Patch(t1, "width", <<Open, Piece("width", sz.width.v, 0)>>)
    IN Patch(t2, "height", <<Open, Piece("height", 0, sz.height.v)>>)

\* the mutant of method2_UseOriginalSVG: the patched text is stored in
\* svgForDownload
method2_UseOriginalSVG_Shared(text, sz) ==
    [svgForDownload |-> method3_DataURI(text, sz), cleanSVG |-> method3_DataURI(text, sz)]

\* method2_UseOriginalSVG up to new Blob: let cleanSVG = svgForDownload, the
\* four patches; svgForDownload is what the variable holds afterwards
method2_UseOriginalSVG(text, sz) ==
    [svgForDownload |-> text,
     cleanSVG |-> Patch(method3_DataURI(text, sz), "viewBox",
                        <<Piece("viewBox", sz.width.v, sz.height.v)>>)]

\* svgElement.outerHTML in method4_DirectCanvas
outerHTML(el) ==
    <<Open>>
    \o (IF el.xmlns THEN <<Piece("xmlns", 0, 0)>> ELSE <<>>)
    \o (IF el.width # Absent THEN <<Piece("width", el.width.v, 0)>> ELSE <<>>)
    \o (IF el.height # Absent THEN <<Piece("height", 0, el.height.v)>> ELSE <<>>)
    \o (IF el.viewBox # NoViewBox THEN <<Piece("viewBox", 0, 0)>> ELSE <<>>)
    \o <<Piece("close", 0, 0)>>
    \o [i \in 1..Len(el.children) |-> Piece("child", 0, 0)]
    \o <<Piece("end", 0, 0)>>

\* the text of the export state machine: the serialized RenderedElement
RenderedText == outerHTML(RenderedElement)


(***************************************************************************)
(* The canvas.                                                             *)
(***************************************************************************)
\* const margin = 16 in svgToPng, const margin = 20 in downloadPNG
margin == 16
chainMargin == 20

Max(a, b) == IF a >= b THEN a ELSE b
Min(a, b) == IF a <= b THEN a ELSE b
\* Math.ceil(a * b) for fixed-point a and b
MulCeil(a, b) == (0 - ((0 - a * b) \div (Den * Den))) * Den

NoCanvas == [width |-> 0, height |-> 0, scale |-> 0]

\* the mutant of pngScale: the ratio is not clamped
pngScale_NoClamp(ratio) == Or(ratio, Num(Den)).v

\* Math.min(Math.max(window.devicePixelRatio || 1, 1), 3)
pngScale(ratio) == Min(Max(Or(ratio, Num(Den)).v, Den), 3 * Den)

\* the mutant of pngCanvas: the margin is left out
pngCanvas_NoMargin(sz, ratio) ==
    [width |-> MulCeil(sz.width.v, pngScale(ratio)),
     height |-> MulCeil(sz.height.v, pngScale(ratio)),
     scale |-> pngScale(ratio)]

\* canvasWidth, canvasHeight of svgToPng, assigned to the canvas in img.onload
pngCanvas(sz, ratio) ==
    LET scale == pngScale(ratio)
        logicalWidth == sz.width.v + margin * Den * 2
        logicalHeight == sz.height.v + margin * Den * 2
    IN [width |-> MulCeil(logicalWidth, scale),
        height |-> MulCeil(logicalHeight, scale),
        scale |-> scale]

\* canvasWidth, canvasHeight of downloadPNG
chainCanvas(sz) ==
    [width |-> sz.width.v + chainMargin * Den * 2,
     height |-> sz.height.v + chainMargin * Den * 2,
     scale |-> Den]


(***************************************************************************)
(* The export state machine: render target, status sink, export sessions.  *)
(***************************************************************************)
\* methods.length in tryAllMethods
NumMethods == 4

Empty == [k |-> "empty", r |-> 0]          \* outputDiv.innerHTML = ''
Rendering == [k |-> "rendering", r |-> 0]  \* the "rendering" placeholder text
Svg(r) == [k |-> "svg", r |-> r]           \* the SVG of renderMermaid call r

Status(kind, detail, m) == [kind |-> kind, detail |-> detail, m |-> m]
StNone == Status("none", "", 0)
StSuccess == Status("success", "png", 0)
StError(detail) == Status("error", detail, 0)

\* a session right after the click: nothing created yet
NewSess ==
    [pc |-> "start",    \* start, loading (image load pending), encoding
                        \* (canvas.toBlob pending), done
     m |-> 0,           \* the strategy being attempted (1 in the png variant)
     log |-> <<>>,      \* how each settled strategy ended: "ok" or "fail"
     urls |-> <<>>,     \* per SVG blob URL created: times it was revoked
     cur |-> 0,         \* index in urls of the URL being loaded, 0 for none
     png |-> 0 - 1,     \* times the PNG blob URL was revoked, -1: not created
     timer |-> FALSE,   \* setTimeout(() => URL.revokeObjectURL(pngUrl)) pending
     warned |-> <<>>,   \* console.warn of tryAllMethods: the iterations that failed
     shown |-> <<>>,    \* the iterations whose error text the error tryAllMethods
                        \* throws carries
     files |-> 0,       \* a.click() dispatched this many times
     result |-> "none"] \* none, success, failed, notfound

\* the part of the state one session's step reads and writes
World(s) == [s |-> s, st |-> status, esc |-> escaped, f |-> faults]

\* URL.revokeObjectURL(url) on the session's current SVG blob URL
revokeObjectURL(s) ==
    IF s.cur = 0 THEN s ELSE [s EXCEPT !.urls[s.cur] = @ + 1]

\* the outcomes of the file-save primitive: it returns, or it throws before
\* or after a.click()
Deliveries == {"ok", "throwBefore", "throwAfter"}
Threw(dl) == dl # "ok"

\* document.body.appendChild(a); a.click(); document.body.removeChild(a)
triggerDownload(w, dl) ==
    [w EXCEPT !.s.files = IF dl = "throwBefore" THEN @ ELSE @ + 1,
              !.f = IF Threw(dl) THEN @ + 1 ELSE @]

\* the mutant of promiseCatch: no rejection handler is attached
promiseCatch_Missing(w, detail) ==
    [w EXCEPT !.esc = TRUE, !.s.pc = "done", !.s.result = "failed"]

\* .catch(error => { errorDiv.innerHTML = ... }) at the end of the promise chain
promiseCatch(w, detail) ==
    [w EXCEPT !.st = StError(detail), !.s.pc = "done", !.s.result = "failed"]

(***************************************************************************)
(* mermaid_script.js: tryAllMethods from iteration i on, entered either at  *)
(* the top of the loop body (how = "start") or in its catch block           *)
(* (how = "catch"). F is the number of strategies, counted from the next    *)
(* one started, whose synchronous part throws: their executor's try/catch  *)
(* turns that into a rejection.                                            *)
(***************************************************************************)
\* the mutant of allFailedError: the text of the first error is kept
allFailedError_FirstError(w, i) == [w EXCEPT !.s.shown = <<1>>]

\* throw new Error(`... ${error.message}`) in the catch of iteration i
allFailedError(w, i) == [w EXCEPT !.s.shown = <<i>>]

RECURSIVE tryAllMethods(_, _, _, _)
tryAllMethods(w, i, how, F) ==
    IF how = "catch"
    THEN LET wc == [w EXCEPT !.s.warned = Append(@, i)]
         IN IF i = NumMethods
            THEN promiseCatch(allFailedError(wc, i), "exhausted")
            ELSE tryAllMethods(wc, i + 1, "start", F)
    ELSE LET w1 == [w EXCEPT !.st = Status("progress", "method", i), !.s.m = i]
         IN IF F > 0
            THEN tryAllMethods([w1 EXCEPT !.f = @ + 1, !.s.log = Append(@, "fail")],
                               i, "catch", F - 1)
            ELSE IF i = 3
            THEN [w1 EXCEPT !.s.pc = "loading", !.s.cur = 0]
            ELSE [w1 EXCEPT !.s.pc = "loading",
                            !.s.urls = Append(@, 0),
                            !.s.cur = Len(w1.s.urls) + 1]

\* the continuation of `await method.fn()` once the strategy resolved
chainDeliver(w, dl, F) ==
    LET w1 == triggerDownload([w EXCEPT !.s.log = Append(@, "ok")], dl)
    IN IF Threw(dl)
       THEN tryAllMethods(w1, w1.s.m, "catch", F)
       ELSE [w1 EXCEPT !.st = StSuccess, !.s.pc = "done", !.s.result = "success"]

\* the continuation of `await method.fn()` once the strategy rejected
chainReject(w, F) ==
    tryAllMethods([w EXCEPT !.s.log = Append(@, "fail")], w.s.m, "catch", F)

\* img.onload of method1_CloneSVG, method2_UseOriginalSVG, method3_DataURI and
\* method4_DirectCanvas. how: "ok", "drawfail" (the canvas context is null or
\* drawImage throws), "encodefail" (canvas.toDataURL throws)
chainOnload(w, how, dl, F) ==
    CASE how = "ok" ->
            chainDeliver([w EXCEPT !.s = revokeObjectURL(@)], dl, F)
      [] how = "drawfail" ->
            chainReject([w EXCEPT !.s = revokeObjectURL(@), !.f = @ + 1], F)
      [] OTHER ->
            chainReject([w EXCEPT !.s = revokeObjectURL(revokeObjectURL(@)),
                                  !.f = @ + 1], F)

\* img.onerror of the four strategies
chainOnerror(w, F) ==
    chainReject([w EXCEPT !.s = revokeObjectURL(@)], F)

\* downloadPNG: the progress message, then tryAllMethods().catch(...)
downloadPNG(w, F) ==
    tryAllMethods([w EXCEPT !.st = Status("progress", "generating", 0)], 1, "start", F)

(***************************************************************************)
(* part_001: svgToPng(...).then(...).catch(...)                            *)
(***************************************************************************)
\* the executor of svgToPng up to img.src = url; syncFail: resolveSvgSize,
\* cloneSvgForExport or the serializer throws, and the executor rejects
svgToPng(w, syncFail) ==
    IF syncFail
    THEN promiseCatch([w EXCEPT !.f = @ + 1, !.s.m = 1], "pngfail")
    ELSE [w EXCEPT !.s.pc = "loading", !.s.m = 1,
                   !.s.urls = Append(@, 0), !.s.cur = Len(w.s.urls) + 1,
                   !.st = Status("progress", "png", 0)]

\* img.onload of svgToPng; "encodefail": canvas.toBlob throws
pngOnload(w, how) ==
    CASE how = "ok" ->
            [w EXCEPT !.s = [revokeObjectURL(@) EXCEPT !.pc = "encoding"]]
      [] how = "drawfail" ->
            promiseCatch([w EXCEPT !.s = revokeObjectURL(@), !.f = @ + 1], "pngfail")
      [] OTHER ->
            promiseCatch([w EXCEPT !.s = revokeObjectURL(revokeObjectURL(@)),
                                   !.f = @ + 1], "pngfail")

\* the mutant of pngOnerror: the URL is revoked but the promise is not rejected
pngOnerror_NoReject(w) ==
    [w EXCEPT !.s = [revokeObjectURL(@) EXCEPT !.pc = "done"]]

\* img.onerror of svgToPng
pngOnerror(w) ==
    promiseCatch([w EXCEPT !.s = revokeObjectURL(@)], "pngfail")

\* the callback of canvas.toBlob, then the .then of downloadBtn.onclick
pngToBlob(w, gotBlob, dl) ==
    IF ~gotBlob
    THEN promiseCatch(w, "pngfail")
    ELSE LET w1 == triggerDownload([w EXCEPT !.s.png = 0], dl)
         IN IF Threw(dl)
            THEN promiseCatch(w1, "pngfail")
            ELSE [w1 EXCEPT !.st = StSuccess, !.s.pc = "done",
                            !.s.result = "success", !.s.timer = TRUE]


(***************************************************************************)
(* renderMermaid                                                           *)
(***************************************************************************)
Ops == Len(rpc) + BagCardinality(sess) + vector.n

\* the mutant of renderCatch: the partial render is not cleared
renderCatch_KeepsOutput(cur) == [st |-> StError("render"), out |-> cur]

\* catch (e) { errorDiv.innerHTML = <pre>message</pre>; outputDiv.innerHTML = '' }
renderCatch(cur) == [st |-> StError("render"), out |-> Empty]

\* renderMermaid up to `await mermaid.render(...)`; present: the three
\* elements of drawingKey exist
RenderStart(present) ==
    /\ Ops < MaxOps
    /\ IF present
       THEN /\ status' = StNone
            /\ output' = Rendering
            /\ rpc' = Append(rpc, "await")
       ELSE /\ rpc' = Append(rpc, "noslot")
            /\ UNCHANGED <<status, output>>
    /\ UNCHANGED <<variant, handler, sess, faults, escaped, node, size, clone, canvas, dpr, vector, svgText, cleanSVG>>

\* the mutant of RenderSettle: the handler of the first successful render is
\* never replaced
RenderSettle_KeepsHandler(r, res) ==
    /\ r \in 1..Len(rpc)
    /\ rpc[r] = "await"
    /\ IF res = "svg"
       THEN /\ output' = Svg(r)
            /\ handler' = IF handler = 0 THEN r ELSE handler
            /\ rpc' = [rpc EXCEPT ![r] = "done"]
            /\ UNCHANGED status
       ELSE /\ output' = Empty
            /\ status' = StError("render")
            /\ rpc' = [rpc EXCEPT ![r] = "failed"]
            /\ UNCHANGED handler
    /\ UNCHANGED <<variant, sess, faults, escaped, node, size, clone, canvas, dpr, vector, svgText,
                   cleanSVG>>

\* mermaid.render settled for call r. res: "svg" (text holding an svg element),
\* "nosvg" (text without one), "reject" (the layout engine failed)
RenderSettle(r, res) ==
    /\ r \in 1..Len(rpc)
    /\ rpc[r] = "await"
    /\ IF res = "svg"
       THEN /\ output' = Svg(r)
            /\ handler' = r
            /\ rpc' = [rpc EXCEPT ![r] = "done"]
            /\ UNCHANGED status
       ELSE LET c == renderCatch(IF res = "nosvg" THEN [k |-> "text", r |-> r] ELSE output)
            IN /\ output' = c.out
               /\ status' = c.st
               /\ rpc' = [rpc EXCEPT ![r] = "failed"]
               /\ UNCHANGED handler
    /\ UNCHANGED <<variant, sess, faults, escaped, node, size, clone, canvas, dpr, vector, svgText, cleanSVG>>

(***************************************************************************)
(* downloadBtn.onclick and the callbacks of an export session              *)
(***************************************************************************)
\* the mutant of onclick: the missing-node early return is left out
onclick_NoEarlyReturn(w, F, syncFail) ==
    IF variant = "chain" THEN downloadPNG(w, F) ELSE svgToPng(w, syncFail)

\* the mutant of onclick: the handler exports the node its render found
\* (the svgElement of the enclosing scope) instead of querying the target
onclick_CapturedNode(w, F, syncFail) ==
    IF handler = 0
    THEN [w EXCEPT !.st = StError("notfound"), !.s.pc = "done", !.s.result = "notfound"]
    ELSE IF variant = "chain" THEN downloadPNG(w, F) ELSE svgToPng(w, syncFail)

\* downloadBtn.onclick: outputDiv.querySelector('svg'), then the export
onclick(w, F, syncFail) ==
    IF output.k # "svg"
    THEN [w EXCEPT !.st = StError("notfound"), !.s.pc = "done", !.s.result = "notfound"]
    ELSE IF variant = "chain" THEN downloadPNG(w, F) ELSE svgToPng(w, syncFail)

\* one session step: the session `old` (none for a click) becomes w.s
Commit(old, w) ==
    /\ w.f <= MaxFaults
    /\ sess' = (sess (-) old) (+) SetToBag({w.s})
    /\ status' = w.st
    /\ escaped' = w.esc
    /\ faults' = w.f
    /\ UNCHANGED <<variant, output, handler, rpc, node, size, clone, canvas, dpr, vector, svgText, cleanSVG>>

Trigger(F, syncFail) ==
    /\ handler # 0
    /\ Ops < MaxOps
    /\ Commit(EmptyBag, onclick(World(NewSess), F, syncFail))

ImgLoad(s, how, dl, F) ==
    /\ s \in BagToSet(sess)
    /\ s.pc = "loading"
    /\ Commit(SetToBag({s}),
              IF variant = "chain"
              THEN chainOnload(World(s), how, dl, F)
              ELSE pngOnload(World(s), how))

ImgError(s, F) ==
    /\ s \in BagToSet(sess)
    /\ s.pc = "loading"
    /\ Commit(SetToBag({s}),
              IF variant = "chain" THEN chainOnerror(World(s), F) ELSE pngOnerror(World(s)))

ToBlobDone(s, gotBlob, dl) ==
    /\ s \in BagToSet(sess)
    /\ s.pc = "encoding"
    /\ Commit(SetToBag({s}), pngToBlob(World(s), gotBlob, dl))

\* setTimeout(() => URL.revokeObjectURL(pngUrl), 3000) fires
TimerFire(s) ==
    /\ s \in BagToSet(sess)
    /\ s.timer
    /\ sess' = (sess (-) SetToBag({s}))
                  (+) SetToBag({[s EXCEPT !.png = @ + 1, !.timer = FALSE]})
    /\ UNCHANGED <<variant, output, status, handler, rpc, faults, escaped, node, size, clone, canvas, dpr, vector, svgText, cleanSVG>>

\* the status message holds the button fallback-svg-<drawingKey>: only the
\* message the .catch of part_001 writes does
HasFallback(st) == st = StError("pngfail")

\* fallbackBtn.onclick; thrown: a statement of its try block throws before
\* a.click(), which the catch logs. The size and the copy it computes are
\* followed in SpecExport.
FallbackClick(thrown) ==
    /\ HasFallback(status)
    /\ Ops < MaxOps
    /\ IF thrown
       THEN /\ faults < MaxFaults
            /\ faults' = faults + 1
            /\ UNCHANGED <<node, vector>>
       ELSE /\ \E f \in {fallbackSvg(node)} :
                  /\ node' = f.live
                  /\ vector' = [n |-> vector.n + 1, doc |-> f.doc]
            /\ UNCHANGED faults
    /\ UNCHANGED <<variant, output, status, handler, rpc, sess, escaped, size, clone, canvas, dpr,
                   svgText, cleanSVG>>

LoadOutcomes == {"ok", "drawfail", "encodefail"}
SyncFailSets == 0..(MaxFaults - faults)

Init ==
    /\ variant \in {"chain", "png"}
    /\ output = Empty
    /\ status = StNone
    /\ handler = 0
    /\ rpc = <<>>
    /\ sess = EmptyBag
    /\ faults = 0
    /\ escaped = FALSE
    /\ node = RenderedElement
    /\ size = NoSize
    /\ clone = NoElement
    /\ canvas = NoCanvas
    /\ dpr = Num(Den)
    /\ vector = NoVector
    /\ svgText = RenderedText
    /\ cleanSVG = NoText

Next ==
    \/ \E present \in BOOLEAN : RenderStart(present)
    \/ \E r \in 1..MaxOps, res \in {"svg", "nosvg", "reject"} : RenderSettle(r, res)
    \/ \E F \in SyncFailSets, syncFail \in BOOLEAN : Trigger(F, syncFail)
    \/ \E s \in BagToSet(sess), how \in LoadOutcomes, dl \in Deliveries, F \in SyncFailSets :
          ImgLoad(s, how, dl, F)
    \/ \E s \in BagToSet(sess), F \in SyncFailSets : ImgError(s, F)
    \/ \E s \in BagToSet(sess), gotBlob \in BOOLEAN, dl \in Deliveries : ToBlobDone(s, gotBlob, dl)
    \/ \E s \in BagToSet(sess) : TimerFire(s)
    \/ \E thrown \in BOOLEAN : FallbackClick(thrown)

Spec == Init /\ [][Next]_vars

\* an event the browser owes the page: an image load settling (load or
\* error), a toBlob callback, a timer, mermaid.render settling
Settle ==
    \/ \E s \in BagToSet(sess), how \in LoadOutcomes, dl \in Deliveries, F \in SyncFailSets :
          ImgLoad(s, how, dl, F)
    \/ \E s \in BagToSet(sess), F \in SyncFailSets : ImgError(s, F)
    \/ \E s \in BagToSet(sess), gotBlob \in BOOLEAN, dl \in Deliveries : ToBlobDone(s, gotBlob, dl)
    \/ \E s \in BagToSet(sess) : TimerFire(s)
    \/ \E r \in 1..MaxOps, res \in {"svg", "nosvg", "reject"} : RenderSettle(r, res)

\* the browser does not withhold owed events for ever
FairSpec == Spec /\ WF_vars(Settle)

\* what the browser owes the page when an image load may stay pending for
\* ever: the timers the page has set
Timers == \E s \in BagToSet(sess) : TimerFire(s)

\* image loads need not settle, timers fire
TimerSpec == Spec /\ WF_vars(Timers)

(***************************************************************************)
(* resolveSvgSize applied to every element of Nodes                        *)
(***************************************************************************)
InitSize ==
    /\ variant = "png"
    /\ output = Empty
    /\ status = StNone
    /\ handler = 0
    /\ rpc = <<>>
    /\ sess = EmptyBag
    /\ faults = 0
    /\ escaped = FALSE
    /\ node \in Nodes
    /\ size = NoSize
    /\ clone = NoElement
    /\ canvas = NoCanvas
    /\ dpr = Num(Den)
    /\ vector = NoVector
    /\ svgText = RenderedText
    /\ cleanSVG = NoText

ResolveSize ==
    /\ size = NoSize
    /\ size' = resolveSvgSize(node)
    /\ UNCHANGED <<variant, output, status, handler, rpc, sess, faults, escaped, node, clone, canvas, dpr, vector, svgText, cleanSVG>>

NextSize == ResolveSize

SpecSize == InitSize /\ [][NextSize]_vars


(***************************************************************************)
(* One export at a time, with its data: the size resolved, the copy built, *)
(* the canvas sized and the vector file of the fallback button, for every  *)
(* element of ExportNodes and every device pixel ratio of Dprs. No         *)
(* exception is thrown here and the file save returns.                     *)
(***************************************************************************)
ChildLists ==
    {<<>>,
     <<Group(0)>>,
     <<Group(0), Child("rect", TRUE, 0, 9 * Den, 9 * Den)>>,
     <<Group(1), Group(0)>>,
     <<StyleNode, Group(0)>>}

ExportAttrs == {Absent, Tok("num", 6 * Den), Tok("num", 0 - 2 * Den), Tok("pct", 100 * Den)}

ExportNodes ==
    {Element(MkNode(w, h, vb, r, b, [w |-> 0, h |-> 0], [w |-> 0, h |-> 0]), x, ch) :
        w \in ExportAttrs, h \in ExportAttrs,
        vb \in {NoViewBox, [sep |-> "space", toks |-> <<N(1), N(2), N(8), N(3)>>]},
        r \in Rects,
        b \in {bb \in BBoxes : bb.k = "throws" \/ bb.width # 0},
        x \in {FALSE},
        ch \in ChildLists}

\* missing, zero, below 1, 1, between 1 and 3, 3, above 3, negative
Dprs == {Undef, Num(0), Num(1), Num(Den), Num(Den + 1), Num(3 * Den), Num(3 * Den + 1), Num(0 - Den)}

InitExport ==
    /\ variant \in {"chain", "png"}
    /\ output = Svg(1)
    /\ status = StNone
    /\ handler = 1
    /\ rpc = <<"done">>
    /\ sess = EmptyBag
    /\ faults = 0
    /\ escaped = FALSE
    /\ node \in ExportNodes
    /\ size = NoSize
    /\ clone = NoElement
    /\ canvas = NoCanvas
    /\ dpr \in IF variant = "png" THEN Dprs ELSE {Num(Den)}
    /\ vector = NoVector
    /\ svgText = RenderedText
    /\ cleanSVG = NoText

\* the session s (none for a click) becomes w.s; earlier sessions are dropped
ExportCommit(w) ==
    /\ sess' = SetToBag({w.s})
    /\ status' = w.st
    /\ UNCHANGED <<variant, output, handler, rpc, faults, escaped, dpr>>

\* downloadBtn.onclick up to img.src = url: the size, the copy
ExportTrigger ==
    /\ \A s \in BagToSet(sess) : s.pc = "done"
    /\ \E sz \in {IF variant = "png" THEN resolveSvgSize(node) ELSE chainSize(node)} :
       \E h \in {IF variant = "png" THEN cloneSvgForExport(node, sz)
                 ELSE method1_CloneSVG(node, sz)} :
          /\ size' = sz
          /\ clone' = h[h.ref]
          /\ node' = h.live
    /\ ExportCommit(onclick(World(NewSess), 0, FALSE))
    /\ UNCHANGED <<canvas, vector, svgText, cleanSVG>>

\* img.onload: the canvas is sized and drawn
ExportLoad ==
    /\ \E s \in BagToSet(sess) :
          /\ s.pc = "loading"
          /\ ExportCommit(IF variant = "chain"
                          THEN chainOnload(World(s), "ok", "ok", 0)
                          ELSE pngOnload(World(s), "ok"))
    /\ canvas' = IF variant = "png" THEN pngCanvas(size, dpr) ELSE chainCanvas(size)
    /\ UNCHANGED <<node, size, clone, vector, svgText, cleanSVG>>

\* what the strategy session s has just started builds from svgForDownload:
\* the text it hands to its image, and svgForDownload afterwards
strategyText(s) ==
    IF variant = "chain" /\ s.pc = "loading" /\ s.m >= 2
    THEN CASE s.m = 2 -> method2_UseOriginalSVG(svgText, size)
           [] s.m = 3 -> [svgForDownload |-> svgText, cleanSVG |-> method3_DataURI(svgText, size)]
           [] OTHER -> [svgForDownload |-> svgText, cleanSVG |-> outerHTML(node)]
    ELSE [svgForDownload |-> svgText, cleanSVG |-> cleanSVG]

\* img.onerror; in the chain variant the next strategy starts
ExportError ==
    /\ \E s \in BagToSet(sess) :
          /\ s.pc = "loading"
          /\ \E w \in {IF variant = "chain"
                        THEN chainOnerror(World(s), 0)
                        ELSE pngOnerror(World(s))} :
                /\ ExportCommit(w)
                /\ \E t \in {strategyText(w.s)} :
                      /\ svgText' = t.svgForDownload
                      /\ cleanSVG' = t.cleanSVG
    /\ UNCHANGED <<node, size, clone, canvas, vector>>

\* the callback of canvas.toBlob with a blob, then the .then of onclick
ExportBlob ==
    /\ \E s \in BagToSet(sess) :
          /\ s.pc = "encoding"
          /\ ExportCommit(pngToBlob(World(s), TRUE, "ok"))
    /\ UNCHANGED <<node, size, clone, canvas, vector, svgText, cleanSVG>>

\* fallbackBtn.onclick: resolveSvgSize, cloneSvgForExport, the serializer,
\* a.click() on the .svg file
ExportFallback ==
    /\ variant = "png"
    /\ status = StError("pngfail")
    /\ \E f \in {fallbackSvg(node)} :
          /\ size' = f.size
          /\ clone' = f.doc
          /\ node' = f.live
          /\ vector' = [n |-> 1, doc |-> f.doc]
    /\ UNCHANGED <<variant, output, status, handler, rpc, sess, faults, escaped, canvas, dpr,
                   svgText, cleanSVG>>

NextExport ==
    \/ ExportTrigger
    \/ ExportLoad
    \/ ExportError
    \/ ExportBlob
    \/ ExportFallback

SpecExport == InitExport /\ [][NextExport]_vars

(***************************************************************************)
(* The chain variant with the text each strategy builds, for every text    *)
(* of Texts as svgForDownload: the render text after the DOMParser step of *)
(* the click handler, or the render text itself when that step threw.      *)
(***************************************************************************)
RootAttrs == {"xmlns", "width", "height", "viewBox"}

\* the root tag with the attributes of A, in a fixed order
RootTag(A) ==
    <<Open>>
    \o (IF "xmlns" \in A THEN <<Piece("xmlns", 0, 0)>> ELSE <<>>)
    \o (IF "width" \in A THEN <<Piece("width", 7 * Den + 1, 0)>> ELSE <<>>)
    \o (IF "height" \in A THEN <<Piece("height", 0, 5 * Den)>> ELSE <<>>)
    \o (IF "viewBox" \in A THEN <<Piece("viewBox", 8 * Den, 3 * Den)>> ELSE <<>>)
    \o <<Piece("close", 0, 0)>>

\* what stands between the root tag and '</svg>'
Contents ==
    {<<>>,
     <<Piece("child", 0, 0)>>,
     <<Piece("child", 0, 0), Piece("width", 2 * Den, 0), Piece("height", 0, Den)>>,
     <<Piece("viewBox", Den, Den), Piece("child", 0, 0)>>}

Texts == {RootTag(A) \o c \o <<Piece("end", 0, 0)>> : A \in SUBSET RootAttrs, c \in Contents}

ChainNodes ==
    {Element(MkNode(Absent, Absent, vb, r, b, [w |-> 0, h |-> 0], [w |-> 0, h |-> 0]), TRUE, ch) :
        vb \in {NoViewBox, [sep |-> "space", toks |-> <<N(1), N(2), N(8), N(3)>>]},
        r \in Rects,
        b \in {bb \in BBoxes : bb.k = "box" /\ bb.width # 0},
        ch \in {<<>>, <<Group(0)>>}}

InitChain ==
    /\ variant = "chain"
    /\ output = Svg(1)
    /\ status = StNone
    /\ handler = 1
    /\ rpc = <<"done">>
    /\ sess = EmptyBag
    /\ faults = 0
    /\ escaped = FALSE
    /\ node \in ChainNodes
    /\ size = NoSize
    /\ clone = NoElement
    /\ canvas = NoCanvas
    /\ dpr = Num(Den)
    /\ vector = NoVector
    /\ svgText \in Texts
    /\ cleanSVG = NoText

NextChain ==
    \/ ExportTrigger
    \/ ExportLoad
    \/ ExportError

SpecChain == InitChain /\ [][NextChain]_vars


(***************************************************************************)
(* Claims C1 - C10                                                         *)
(***************************************************************************)
Sessions == BagToSet(sess)
InFlight(s) == s.pc \in {"loading", "encoding"}

\* C1: within one session of the chain variant the strategies run in the
\* order 1, 2, 3, 4, a strategy is started only after every earlier one
\* settled with a failure, none is started after one that succeeded, the
\* chain fails only when all four failed, and a failure of 1 followed by a
\* success of 2 leaves exactly 1 and 2 invoked.
C1_ChainOrder ==
    variant = "chain" =>
        \A s \in Sessions :
            /\ Len(s.log) \in {s.m - 1, s.m} \/ s.m = 0
            /\ \A k \in 1..Len(s.log) : k < s.m => s.log[k] = "fail"
            /\ s.result = "failed" => s.log = <<"fail", "fail", "fail", "fail">>
            /\ (Len(s.log) >= 2 /\ SubSeq(s.log, 1, 2) = <<"fail", "ok">>) => s.m = 2

\* C2: every SVG blob URL whose image load has settled has been revoked
\* exactly once, whichever way the attempt ended.
C2_SvgUrlRevokedOnce ==
    \A s \in Sessions :
        \A u \in 1..Len(s.urls) :
            (s.pc # "loading" \/ u # s.cur) => s.urls[u] = 1

\* C3: the PNG blob URL is never revoked before the click, at most once, and
\* after the .then/.catch of the session ran it is revoked or its revoke is
\* scheduled, also when the download step threw.
C3_PngUrlReleased ==
    \A s \in Sessions :
        s.png >= 0 =>
            /\ s.png <= 1
            /\ s.png = 1 => s.files >= 1
            /\ s.png = 1 \/ s.timer

\* C4: a status sink showing progress eventually shows success or error.
C4_LeavesProgress ==
    (status.kind = "progress") ~> (status.kind \in {"success", "error"})

\* C4 witness: a session that showed progress has ended and the sink shows
\* its outcome
C4_Witness ==
    \E s \in Sessions :
        /\ s.pc = "done"
        /\ s.m >= 1
        /\ Len(s.urls) >= 1
        /\ status.kind \in {"success", "error"}

\* a session ends in failure in this step
FailsNow(s) == s.result = "failed" /\ CopiesIn(s, sess') > CopiesIn(s, sess)

\* C5: no exception leaves a handler, no rejection is left unhandled, and
\* the step that ends a session in failure writes an error to the status sink.
C5_Contained ==
    [][/\ ~escaped'
       /\ (\E s \in BagToSet(sess') : FailsNow(s)) => status'.kind = "error"]_vars

\* C5 witness: an exception was thrown during an export and the session
\* ended in failure
C5_Witness ==
    /\ faults > 0
    /\ ~escaped
    /\ \E s \in Sessions : s.result = "failed"

\* C6: the step in which a render fails leaves the render target empty and
\* the render error in the status sink, and lets nothing escape.
C6_RenderAbort ==
    [][\A r \in 1..Len(rpc) :
          (rpc[r] = "await" /\ rpc'[r] = "failed")
          => /\ output' = Empty
             /\ status' = StError("render")
             /\ escaped' = escaped]_vars

\* C6 witness: a render has failed
C6_Witness ==
    \E r \in 1..Len(rpc) : rpc[r] = "failed"

\* C7: a click that finds no svg element in the render target sets the
\* node-not-found error and does nothing else: no size, no blob URL, no
\* strategy, no file.
C7_NoNodeNoExport ==
    [][(BagCardinality(sess') = BagCardinality(sess) + 1 /\ output.k # "svg")
       => /\ status' = StError("notfound")
          /\ sess' = sess (+) SetToBag({[NewSess EXCEPT !.pc = "done",
                                                        !.result = "notfound"]})
          /\ size' = size
          /\ faults' = faults]_vars

\* C7 witness: a click found no svg element
C7_Witness ==
    \E s \in Sessions : s.result = "notfound"

\* C8: at most one export session is in flight at any time.
C8_OneInFlight ==
    \A s \in Sessions : InFlight(s) =>
        /\ CopiesIn(s, sess) = 1
        /\ \A t \in Sessions : InFlight(t) => t = s

\* the viewBox attribute is a list of four finite numbers
ValidViewBox(n) ==
    /\ n.viewBox.sep \in {"space", "comma"}
    /\ Len(n.viewBox.toks) = 4
    /\ \A k \in 1..4 : n.viewBox.toks[k].k = "num"

\* the declared attribute is a number other than zero
Usable(tok) == tok.k \in {"num", "unit"} /\ tok.v # 0

PercentOnly(n) ==
    n.width.k = "pct" /\ n.height.k = "pct" /\ n.viewBox.sep = "none"

\* C10 as stated: percentage width and height without a viewBox resolve to
\* 1024 by 768
C10_PercentDefault ==
    (size # NoSize /\ PercentOnly(node)) =>
        /\ size.width = Num(1024 * Den)
        /\ size.height = Num(768 * Den)

\* no later source has a width (height) for the node
NoOtherWidth(n) ==
    /\ ~n.hasRect \/ n.rect.width = 0
    /\ n.bbox.k # "box" \/ n.bbox.width = 0
    /\ n.clientWidth = 0 /\ n.scrollWidth = 0
NoOtherHeight(n) ==
    /\ ~n.hasRect \/ n.rect.height = 0
    /\ n.bbox.k # "box" \/ n.bbox.height = 0
    /\ n.clientHeight = 0 /\ n.scrollHeight = 0

\* C10 amended: percentage width and height without a viewBox resolve to the
\* layout box where it is not zero, and to 1024 (768) where the layout box,
\* the content bounding box and the client and scroll sizes give nothing
C10_PercentFallback ==
    (size # NoSize /\ PercentOnly(node)) =>
        /\ NoOtherWidth(node) => size.width = Num(1024 * Den)
        /\ NoOtherHeight(node) => size.height = Num(768 * Den)
        /\ (node.hasRect /\ node.rect.width # 0) => size.width = Num(node.rect.width)
        /\ (node.hasRect /\ node.rect.height # 0) => size.height = Num(node.rect.height)

\* C10 witness: the default size was returned for a percentage-only node
C10_Witness ==
    /\ size # NoSize
    /\ PercentOnly(node)
    /\ NoOtherWidth(node) /\ NoOtherHeight(node)
    /\ size.width = Num(1024 * Den) /\ size.height = Num(768 * Den)

(***************************************************************************)
(* Claims C11 - C20                                                        *)
(***************************************************************************)
\* C11: for every input node the width and the height resolveSvgSize
\* returns are strictly positive finite numbers.
C11_PositiveFinite ==
    size # NoSize =>
        /\ size.width.t = "num" /\ size.width.v > 0
        /\ size.height.t = "num" /\ size.height.v > 0

\* C12: no step of an export, the vector download of the fallback button
\* included, changes the live SVG node: its width, height and viewBox
\* attributes and its list of children stay as they were.
C12_LiveNodeUntouched ==
    [][node' = node]_vars

\* C12 witness: copies were built for a raster export and then for the
\* vector file of the fallback button, and they differ from the live node
C12_Witness ==
    /\ vector.n > 0
    /\ clone # NoElement
    /\ clone.width # node.width
    /\ clone.children # node.children

\* the number of rect[data-export-bg] elements in a list of subtrees
RECURSIVE TaggedIn(_)
TaggedIn(ch) ==
    IF ch = <<>> THEN 0
    ELSE (IF Head(ch).tagged THEN 1 ELSE 0) + Head(ch).inner + TaggedIn(Tail(ch))

\* the children of the copy that cloneSvgForExport inserted: those before
\* the ones copied from the node
Inserted(el) == SubSeq(el.children, 1, Len(el.children) - Len(node.children))

\* C13 as stated: the copy cloneSvgForExport builds holds exactly one rect
\* tagged as export background, and that rect precedes every node copied from
\* the original, also when the original already holds a tagged rect.
C13_OneBackgroundFirst ==
    (variant = "png" /\ clone # NoElement) =>
        /\ TaggedIn(clone.children) = 1
        /\ \E i \in 1..Len(Inserted(clone)) : Inserted(clone)[i].tagged

\* C13 amended: when the original holds no tagged rect anywhere in its tree,
\* the copy holds exactly one, inserted before every copied node and sized
\* 0, 0, width, height; when the original holds one, none is inserted and
\* the copied ones stay where they were.
C13_BackgroundUnlessTagged ==
    (variant = "png" /\ clone # NoElement) =>
        IF TaggedIn(node.children) = 0
        THEN /\ TaggedIn(clone.children) = 1
             /\ Inserted(clone) = <<StyleNode, BgRect(size.width, size.height)>>
        ELSE /\ TaggedIn(clone.children) = TaggedIn(node.children)
             /\ Inserted(clone) = <<StyleNode>>

\* C13 witness: a copy with an inserted background, built from a node with
\* children and no tagged rect
C13_Witness ==
    /\ variant = "png" /\ clone # NoElement
    /\ node.children # <<>> /\ TaggedIn(node.children) = 0
    /\ TaggedIn(clone.children) = 1
    /\ clone.children[2].tagged

\* c is the smallest whole number of pixels not below a * b
IsCeilOfProduct(c, a, b) ==
    /\ c % Den = 0
    /\ c * Den >= a * b
    /\ (c - Den) * Den < a * b

\* C14: whatever the size and the device pixel ratio (missing, zero, below
\* 1, above 3), the scale s that svgToPng uses is the ratio clamped to
\* 1 <= s <= 3, and the canvas is ceil((width + 2 * margin) * s) by
\* ceil((height + 2 * margin) * s) pixels.
C14_CanvasSize ==
    (variant = "png" /\ canvas # NoCanvas) =>
        /\ canvas.scale >= Den /\ canvas.scale <= 3 * Den
        /\ (dpr.t = "num" /\ dpr.v >= Den /\ dpr.v <= 3 * Den) => canvas.scale = dpr.v
        /\ IsCeilOfProduct(canvas.width, size.width.v + 2 * margin * Den, canvas.scale)
        /\ IsCeilOfProduct(canvas.height, size.height.v + 2 * margin * Den, canvas.scale)

\* C14 witness: a canvas sized with a ratio above 3 for a size that is not a
\* whole number
C14_Witness ==
    /\ variant = "png" /\ canvas # NoCanvas
    /\ dpr.t = "num" /\ dpr.v > 3 * Den
    /\ canvas.scale = 3 * Den
    /\ size.width.v % Den # 0

\* the node declares no width, no height and no viewBox and has a layout box
LayoutOnly(n) ==
    /\ n.width = Absent /\ n.height = Absent /\ n.viewBox = NoViewBox
    /\ n.hasRect /\ n.rect.width # 0 /\ n.rect.height # 0

\* C15: for a node without declared width and height and without a viewBox
\* whose layout box is W by H, the raster of a successful export is
\* ceil((W + 32) * scale) by ceil((H + 32) * scale) pixels.
C15_LayoutBoxRaster ==
    (variant = "png" /\ status = StSuccess /\ LayoutOnly(node)) =>
        /\ IsCeilOfProduct(canvas.width, node.rect.width + 32 * Den, canvas.scale)
        /\ IsCeilOfProduct(canvas.height, node.rect.height + 32 * Den, canvas.scale)
        /\ canvas.scale = Min(Max(IF Falsy(dpr) THEN Den ELSE dpr.v, Den), 3 * Den)

\* C15 witness: an export of such a node succeeded, the content box of the
\* node being smaller than its layout box
C15_Witness ==
    /\ variant = "png" /\ status = StSuccess /\ LayoutOnly(node)
    /\ node.bbox.k = "box" /\ node.bbox.width # node.rect.width
    /\ \E s \in Sessions : s.result = "success" /\ s.files = 1
    /\ canvas.width > node.rect.width + 32 * Den

\* C16: a session that ended with the success status saved exactly one file,
\* a session that ended with an error status saved none, and no session
\* saves a second file, whatever fails after the first.
C16_OneFilePerTrigger ==
    \A s \in Sessions :
        /\ s.files <= 1
        /\ s.result = "success" => s.files = 1
        /\ s.result \in {"failed", "notfound"} => s.files = 0

\* C17: the step that ends a session in failure leaves an error in the
\* status sink together with the secondary action, and that action saves
\* the export-ready copy of the live node as a vector file.
C17_FallbackOffered ==
    [][/\ (\E s \in BagToSet(sess') : FailsNow(s))
            => (status'.kind = "error" /\ HasFallback(status'))
       /\ vector'.n > vector.n
            => vector'.doc = cloneSvgForExport(node, resolveSvgSize(node))[ "cloned" ]]_vars

UrlPending(s) == s.pc = "loading" /\ s.cur # 0 /\ s.urls[s.cur] = 0

\* C19: a blob URL handed to an image is released after a bounded time also
\* when the image load never settles.
C19_ReleasedWithoutSettle ==
    (\E s \in Sessions : UrlPending(s)) ~> (\A s \in Sessions : ~UrlPending(s))

\* what each step of resolveSvgSize has to offer for the width and for the
\* height of node n, 0 standing for nothing
Declared(tok) == IF tok.k \in {"num", "unit"} THEN tok.v ELSE 0
Extent(n, i) ==
    IF ValidViewBox(n) /\ n.viewBox.sep = "space" THEN n.viewBox.toks[i].v ELSE 0
WidthOffers(n) ==
    <<Declared(n.width), Extent(n, 3),
      IF n.hasRect THEN n.rect.width ELSE 0,
      IF n.bbox.k = "box" THEN Ceil(n.bbox.width) ELSE 0>>
HeightOffers(n) ==
    <<Declared(n.height), Extent(n, 4),
      IF n.hasRect THEN n.rect.height ELSE 0,
      IF n.bbox.k = "box" THEN Ceil(n.bbox.height) ELSE 0>>

\* the first offer that is something, the default when there is none
RECURSIVE FirstOffer(_, _)
FirstOffer(offers, default) ==
    IF offers = <<>> THEN default
    ELSE IF Head(offers) # 0 THEN Head(offers)
    ELSE FirstOffer(Tail(offers), default)

\* C20 as stated: each dimension is the first that yields something of the
\* declared attribute, the viewBox extent, the layout box and the content
\* bounding box, and the default 1024 (768) when none of them does.
C20_PriorityOrder ==
    size # NoSize =>
        /\ size.width = Num(FirstOffer(WidthOffers(node), 1024 * Den))
        /\ size.height = Num(FirstOffer(HeightOffers(node), 768 * Den))

\* C20 amended: as stated, with the client size and then the scroll size of
\* the node tried after the content bounding box and before the default; a
\* step yields something when its number is finite and not zero.
C20_PriorityWithClientSize ==
    size # NoSize =>
        /\ size.width = Num(FirstOffer(WidthOffers(node)
                                \o <<node.clientWidth, node.scrollWidth>>, 1024 * Den))
        /\ size.height = Num(FirstOffer(HeightOffers(node)
                                \o <<node.clientHeight, node.scrollHeight>>, 768 * Den))

\* C20 witness: the layout box was returned for a node whose content
\* bounding box and client size offer other numbers
C20_Witness ==
    /\ size # NoSize
    /\ Declared(node.width) = 0 /\ Extent(node, 3) = 0
    /\ node.hasRect /\ node.rect.width # 0
    /\ node.bbox.k = "box" /\ Ceil(node.bbox.width) \notin {0, node.rect.width}
    /\ node.clientWidth # 0
    /\ size.width = Num(node.rect.width)

(***************************************************************************)
(* Claims C21 - C26                                                        *)
(***************************************************************************)
\* the number of style nodes among the children ch
RECURSIVE StylesIn(_)
StylesIn(ch) ==
    IF ch = <<>> THEN 0
    ELSE (IF Head(ch).k = "style" THEN 1 ELSE 0) + StylesIn(Tail(ch))

\* C21 as stated: in the copy cloneSvgForExport returns the style node is the
\* first child, the export background rect is the second, the original
\* content follows, and exactly one style node was injected.
C21_StyleThenBackground ==
    (variant = "png" /\ clone # NoElement) =>
        /\ clone.children[1] = StyleNode
        /\ Len(clone.children) >= 2 /\ clone.children[2].tagged
        /\ SubSeq(clone.children, 3, Len(clone.children)) = node.children
        /\ StylesIn(clone.children) = StylesIn(node.children) + 1

\* C21 amended: the style node is always the first child and exactly one is
\* injected; the background rect is the second child, directly before the
\* original content, when the original holds no tagged rect, and otherwise
\* the original content follows the style node directly.
C21_StyleFirst ==
    (variant = "png" /\ clone # NoElement) =>
        /\ clone.children[1] = StyleNode
        /\ StylesIn(clone.children) = StylesIn(node.children) + 1
        /\ IF TaggedIn(node.children) = 0
           THEN /\ clone.children[2].tagged /\ clone.children[2].k = "rect"
                /\ SubSeq(clone.children, 3, Len(clone.children)) = node.children
           ELSE Tail(clone.children) = node.children

\* C21 witness: a copy of a node that has a style node of its own
C21_Witness ==
    /\ variant = "png" /\ clone # NoElement
    /\ StylesIn(node.children) = 1
    /\ StylesIn(clone.children) = 2
    /\ clone.children[2].tagged

\* the rect r covers the region of the viewBox vb (a list of four numbers)
CoversViewBox(r, vb) ==
    /\ r.x <= vb.toks[1].v
    /\ r.y <= vb.toks[2].v
    /\ r.x + r.w >= vb.toks[1].v + vb.toks[3].v
    /\ r.y + r.h >= vb.toks[2].v + vb.toks[4].v

\* C22: the background rect cloneSvgForExport injects is at least
\* width + 2 * margin by height + 2 * margin of the resolved size and covers
\* the whole region of the viewBox of the copy, whatever its origin.
C22_BackgroundCovers ==
    (variant = "png" /\ clone # NoElement /\ TaggedIn(node.children) = 0) =>
        /\ clone.children[2].w >= size.width.v + 2 * margin * Den
        /\ clone.children[2].h >= size.height.v + 2 * margin * Den
        /\ CoversViewBox(clone.children[2], clone.viewBox)

\* the number of pieces of kind k in a text
RECURSIVE CountPieces(_, _)
CountPieces(text, k) ==
    IF text = <<>> THEN 0
    ELSE (IF Head(text).k = k THEN 1 ELSE 0) + CountPieces(Tail(text), k)

\* strategy 2 has built its text and waits for its image
InStrategy2 == \E s \in Sessions : s.pc = "loading" /\ s.m = 2

\* the pieces the patching put in front of what follows '<svg' in the text
AddedPieces == SubSeq(cleanSVG, 2, Len(cleanSVG) - Len(svgText) + 1)

\* C23: the text strategy 2 builds holds each of xmlns, width, height and
\* viewBox once more than the captured text exactly when the captured text
\* holds none, it still starts with '<svg', and everything else of the
\* captured text is kept as it was.
C23_PatchOnlyAbsent ==
    InStrategy2 =>
        /\ \A k \in RootAttrs :
              CountPieces(cleanSVG, k)
                 = CountPieces(svgText, k) + (IF Includes(svgText, k) THEN 0 ELSE 1)
        /\ Len(cleanSVG) >= Len(svgText)
        /\ Head(cleanSVG) = Open
        /\ SubSeq(cleanSVG, Len(cleanSVG) - Len(svgText) + 2, Len(cleanSVG)) = Tail(svgText)
        /\ \A i \in 1..Len(AddedPieces) : AddedPieces[i].k \in RootAttrs

\* C24: no step of a strategy changes the live node, the captured text or
\* the computed width and height, so that what strategy 3 and strategy 4
\* hand to their image is what they build from the node and the text the
\* click captured, whatever the strategies before them did.
C24_NoSharedState ==
    [][/\ node' = node
       /\ svgText' = svgText
       /\ size # NoSize => size' = size
       /\ \A s \in BagToSet(sess') :
             (s.pc = "loading" /\ CopiesIn(s, sess) = 0) =>
                 /\ s.m = 3 => cleanSVG' = method3_DataURI(svgText, chainSize(node))
                 /\ s.m = 4 => cleanSVG' = outerHTML(node)]_vars

\* C24 witness: strategy 3 runs after 1 and 2 failed, strategy 2 having
\* patched a text without width and viewBox
C24_Witness ==
    \E s \in Sessions :
        /\ s.pc = "loading" /\ s.m = 3 /\ s.log = <<"fail", "fail">>
        /\ ~Includes(svgText, "width") /\ ~Includes(svgText, "viewBox")
        /\ Includes(cleanSVG, "width") /\ Includes(cleanSVG, "open")

\* C25: whenever the render target holds an SVG node, so that a click starts
\* an export, the handler installed on the button is the one of the render
\* that produced this node: the text it captured is the text of the node.
C25_HandlerMatchesNode ==
    /\ output.k = "svg" => handler = output.r
    /\ \A s \in Sessions : s.m >= 1 => handler # 0

\* C25 witness: two renders overlapped, the one started first settled last,
\* and an export was started on its node
C25_Witness ==
    /\ Len(rpc) >= 2 /\ rpc[1] = "done" /\ rpc[2] \in {"done", "failed"}
    /\ output = Svg(1) /\ handler = 1
    /\ \E s \in Sessions : s.m >= 1

\* the sessions a step starts: the click of the download button adds one
Started == {s \in BagToSet(sess') : CopiesIn(s, sess') > CopiesIn(s, sess)}
Clicked == BagCardinality(sess') > BagCardinality(sess)

\* C26: a render that fails leaves no SVG node in the target, only a render
\* that succeeds puts one there, and while there is none a click of the
\* download button creates no blob URL and delivers no file: its session is
\* over at once with the node-not-found error in the status sink.
C26_NoExportAfterFailedRender ==
    [][/\ \A r \in 1..Len(rpc) :
             (rpc[r] = "await" /\ rpc'[r] = "failed") => output'.k # "svg"
       /\ (output.k # "svg" /\ output'.k = "svg") =>
             \E r \in 1..Len(rpc) : rpc[r] = "await" /\ rpc'[r] = "done"
       /\ (Clicked /\ output.k # "svg") =>
             /\ \A s \in Started :
                   /\ s.result = "notfound" /\ s.pc = "done"
                   /\ s.urls = <<>> /\ s.png < 0 /\ s.files = 0
             /\ status' = StError("notfound")
             /\ faults' = faults /\ vector' = vector]_vars

\* C26 witness: a render succeeded and installed the handler, a later one
\* failed and cleared the target, and the button was clicked after that
C26_Witness ==
    /\ handler # 0 /\ output = Empty
    /\ \E r \in 1..Len(rpc) : rpc[r] = "done"
    /\ \E r \in 1..Len(rpc) : rpc[r] = "failed"
    /\ \A r \in 1..Len(rpc) : rpc[r] # "await"
    /\ status = StError("notfound")
    /\ \E s \in Sessions : s.result = "notfound"

====
